---- MODULE Spec2Model ----
(***************************************************************************)
(* Distance Vector Routing simulation (distance_vector_routing.py).        *)
(*                                                                         *)
(* A Network owns an insertion-ordered dict of Routers and a networkx      *)
(* graph.  Each Router owns an insertion-ordered dict of neighbours (link  *)
(* costs) and an insertion-ordered routing table dest -> (cost, next hop). *)
(* Network.simulate runs Bellman-Ford rounds until a round changes nothing *)
(* or the iteration cap is reached.                                        *)
(***************************************************************************)
EXTENDS Integers, Sequences, FiniteSets, TLC

VARIABLES
    routers,         \* Network.routers: ordered dict name -> Router
    graph,           \* Network.graph: [nodes, edges] of the networkx graph
    pc,              \* "idle" | "loop" | "round" | "done" | "raised"
    max_iterations,  \* argument of the running simulate call
    iteration,       \* local of simulate
    converged,       \* local of simulate
    changes,         \* local of simulate (value of the last round)
    ri,              \* position of "for router in self.routers.values()"
    ni,              \* position of "for neighbor in router.neighbors"
    nops,            \* number of add_router / add_link calls made so far
    nruns,           \* number of simulate calls made so far
    topo,            \* history: "building" | "frozen" | "changed"
    fixpoint,        \* history: a round without changes ended, no mutation since
    pre              \* history: routers as they were when simulate was called

vars == <<routers, graph, pc, max_iterations, iteration, converged, changes,
          ri, ni, nops, nruns, topo, fixpoint, pre>>

simvars == <<max_iterations, iteration, converged, changes, ri, ni>>

----------------------------------------------------------------------------
(* Bounds of the model *)

\* topology operations (add_router, add_link) per behaviour of Spec
MaxOps == 4
\* add_link calls per behaviour of StaticSpec
MaxLinks == 3
\* simulate calls per behaviour
MaxRuns == 2
\* max_iterations arguments are drawn from 0 .. MaxIter
MaxIter == 3

\* default of simulate's max_iterations parameter, used by main
DefaultMaxIterations == 100

\* router names and link costs the operations draw their arguments from
Names == <<"A", "B", "C">>

Ids == {Names[i] : i \in DOMAIN Names}

Costs == {0, 1, 2}

----------------------------------------------------------------------------
(* Python dicts: insertion-ordered sequences of <<key, value>> pairs *)

Keys(d) == {d[i][1] : i \in DOMAIN d}

Has(d, k) == k \in Keys(d)

Get(d, k) == d[CHOOSE i \in DOMAIN d : d[i][1] = k][2]

\* d[k] = v : an existing key keeps its position, a new key is appended
Put(d, k, v) ==
    IF Has(d, k)
    THEN [i \in DOMAIN d |-> IF d[i][1] = k THEN <<k, v>> ELSE d[i]]
    ELSE Append(d, <<k, v>>)

----------------------------------------------------------------------------
(* Router *)

\* Router.__init__
NewRouter(name) ==
    [name |-> name, neighbors |-> <<>>, routing_table |-> <<>>]

\* variants of add_neighbor with a plausible slip: one keeps a cheaper route
\* it already holds, one rebuilds the table from the new neighbor alone
add_neighbor_KeepBetter(self, neighbor_name, cost) ==
    [self EXCEPT
        !.neighbors = Put(self.neighbors, neighbor_name, cost),
        !.routing_table =
            Put(IF Has(self.routing_table, neighbor_name)
                   /\ Get(self.routing_table, neighbor_name)[1] <= cost
                THEN self.routing_table
                ELSE Put(self.routing_table, neighbor_name, <<cost, neighbor_name>>),
                self.name, <<0, self.name>>)]

add_neighbor_Reset(self, neighbor_name, cost) ==
    [self EXCEPT
        !.neighbors = Put(self.neighbors, neighbor_name, cost),
        !.routing_table =
            Put(Put(<< >>, neighbor_name, <<cost, neighbor_name>>),
                self.name, <<0, self.name>>)]

\* Router.add_neighbor
add_neighbor(self, neighbor_name, cost) ==
    [self EXCEPT
        !.neighbors = Put(self.neighbors, neighbor_name, cost),
        !.routing_table =
            Put(Put(self.routing_table, neighbor_name, <<cost, neighbor_name>>),
                self.name, <<0, self.name>>)]

\* variants of IsBetter with a plausible slip in the comparison
IsBetter_OnlyNew(routing_table, dest, new_cost) ==
    ~Has(routing_table, dest)

IsBetter_OrEqual(routing_table, dest, new_cost) ==
    \/ ~Has(routing_table, dest)
    \/ new_cost <= Get(routing_table, dest)[1]

IsBetter_Worse(routing_table, dest, new_cost) ==
    \/ ~Has(routing_table, dest)
    \/ new_cost > Get(routing_table, dest)[1]

\* the condition of the if in update_routing_table
IsBetter(routing_table, dest, new_cost) ==
    \/ ~Has(routing_table, dest)
    \/ new_cost < Get(routing_table, dest)[1]

\* variant of RelaxLoop that stores the next hop the neighbor itself uses
RECURSIVE RelaxLoop_NeighborHop(_, _, _, _, _, _)
RelaxLoop_NeighborHop(routing_table, neighbor_name, cost_to_neighbor, neighbor_table, i, modified) ==
    IF i > Len(neighbor_table)
    THEN [routing_table |-> routing_table, modified |-> modified]
    ELSE LET dest == neighbor_table[i][1]
             dest_cost == neighbor_table[i][2][1]
             new_cost == cost_to_neighbor + dest_cost
         IN  IF IsBetter(routing_table, dest, new_cost)
             THEN RelaxLoop_NeighborHop(Put(routing_table, dest, <<new_cost, neighbor_table[i][2][2]>>),
                            neighbor_name, cost_to_neighbor, neighbor_table, i + 1, TRUE)
             ELSE RelaxLoop_NeighborHop(routing_table,
                            neighbor_name, cost_to_neighbor, neighbor_table, i + 1, modified)

\* the for loop of update_routing_table, from item i of neighbor_table on
RECURSIVE RelaxLoop(_, _, _, _, _, _)
RelaxLoop(routing_table, neighbor_name, cost_to_neighbor, neighbor_table, i, modified) ==
    IF i > Len(neighbor_table)
    THEN [routing_table |-> routing_table, modified |-> modified]
    ELSE LET dest == neighbor_table[i][1]
             dest_cost == neighbor_table[i][2][1]
             new_cost == cost_to_neighbor + dest_cost
         IN  IF IsBetter(routing_table, dest, new_cost)
             THEN RelaxLoop(Put(routing_table, dest, <<new_cost, neighbor_name>>),
                            neighbor_name, cost_to_neighbor, neighbor_table, i + 1, TRUE)
             ELSE RelaxLoop(routing_table,
                            neighbor_name, cost_to_neighbor, neighbor_table, i + 1, modified)

\* variant of update_routing_table that never reports a modification
update_routing_table_NoFlag(self, neighbor_name, neighbor_table) ==
    IF ~Has(self.neighbors, neighbor_name)
    THEN [router |-> self, modified |-> FALSE, raised |-> TRUE]
    ELSE LET r == RelaxLoop(self.routing_table, neighbor_name,
                            Get(self.neighbors, neighbor_name), neighbor_table, 1, FALSE)
         IN  [router |-> [self EXCEPT !.routing_table = r.routing_table],
              modified |-> FALSE, raised |-> FALSE]

\* variant that also records every destination it holds as a neighbor
update_routing_table_Learns(self, neighbor_name, neighbor_table) ==
    IF ~Has(self.neighbors, neighbor_name)
    THEN [router |-> self, modified |-> FALSE, raised |-> TRUE]
    ELSE LET r == RelaxLoop(self.routing_table, neighbor_name,
                            Get(self.neighbors, neighbor_name), neighbor_table, 1, FALSE)
             learned == SelectSeq(r.routing_table,
                                  LAMBDA e : e[1] # self.name /\ ~Has(self.neighbors, e[1]))
         IN  [router |-> [self EXCEPT !.routing_table = r.routing_table,
                                      !.neighbors = @ \o [i \in DOMAIN learned |->
                                                            <<learned[i][1], learned[i][2][1]>>]],
              modified |-> r.modified, raised |-> FALSE]

\* variant that reads the cost with a default instead of failing
update_routing_table_Default(self, neighbor_name, neighbor_table) ==
    LET cost_to_neighbor == IF Has(self.neighbors, neighbor_name)
                            THEN Get(self.neighbors, neighbor_name) ELSE 0
        r == RelaxLoop(self.routing_table, neighbor_name, cost_to_neighbor,
                       neighbor_table, 1, FALSE)
    IN  [router |-> [self EXCEPT !.routing_table = r.routing_table],
         modified |-> r.modified, raised |-> FALSE]

\* Router.update_routing_table: the router after the call, the returned flag,
\* and whether self.neighbors[neighbor_name] raised KeyError
update_routing_table(self, neighbor_name, neighbor_table) ==
    IF ~Has(self.neighbors, neighbor_name)
    THEN [router |-> self, modified |-> FALSE, raised |-> TRUE]
    ELSE LET r == RelaxLoop(self.routing_table, neighbor_name,
                            Get(self.neighbors, neighbor_name), neighbor_table, 1, FALSE)
         IN  [router |-> [self EXCEPT !.routing_table = r.routing_table],
              modified |-> r.modified, raised |-> FALSE]

----------------------------------------------------------------------------
(* networkx graph: a set of nodes and weighted undirected edges *)

EmptyGraph == [nodes |-> {}, edges |-> {}]

graph_add_node(g, name) == [g EXCEPT !.nodes = @ \cup {name}]

graph_add_edge(g, u, v, w) ==
    [nodes |-> g.nodes \cup {u, v},
     edges |-> {e \in g.edges : e.ends # {u, v}} \cup {[ends |-> {u, v}, weight |-> w]}]

----------------------------------------------------------------------------
(* Network *)

\* a topology operation changes the topology a simulation has already used
Mutated == IF topo = "building" THEN "building" ELSE "changed"

\* Network.__init__
Init ==
    /\ routers = <<>>
    /\ graph = EmptyGraph
    /\ pc = "idle"
    /\ max_iterations = 0
    /\ iteration = 0
    /\ converged = FALSE
    /\ changes = FALSE
    /\ ri = 1
    /\ ni = 1
    /\ nops = 0
    /\ nruns = 0
    /\ topo = "building"
    /\ fixpoint = FALSE
    /\ pre = <<>>

\* Network.add_router
add_router(name) ==
    /\ pc \in {"idle", "done"}
    /\ routers' = Put(routers, name, NewRouter(name))
    /\ graph' = graph_add_node(graph, name)
    /\ pc' = "idle"
    /\ nops' = nops + 1
    /\ topo' = Mutated
    /\ fixpoint' = FALSE
    /\ UNCHANGED <<simvars, nruns, pre>>

\* Network.add_link: self.routers[...] raises KeyError for a name that is not
\* a router; the first add_neighbor has then already run when only router2 is
\* missing
add_link(router1, router2, cost) ==
    /\ pc \in {"idle", "done"}
    /\ nops' = nops + 1
    /\ topo' = Mutated
    /\ fixpoint' = FALSE
    /\ UNCHANGED <<simvars, nruns, pre>>
    /\ IF ~Has(routers, router1)
       THEN /\ pc' = "raised"
            /\ UNCHANGED <<routers, graph>>
       ELSE LET r1 == Put(routers, router1,
                          add_neighbor(Get(routers, router1), router2, cost))
            IN  IF ~Has(r1, router2)
                THEN /\ pc' = "raised"
                     /\ routers' = r1
                     /\ UNCHANGED graph
                ELSE /\ pc' = "idle"
                     /\ routers' = Put(r1, router2,
                                       add_neighbor(Get(r1, router2), router1, cost))
                     /\ graph' = graph_add_edge(graph, router1, router2, cost)

\* variants of WhileCond with a plausible slip
WhileCond_Inclusive == ~converged /\ iteration <= max_iterations

WhileCond_NoStop == iteration < max_iterations

\* simulate, line 161: the condition of the while loop
WhileCond == ~converged /\ iteration < max_iterations

\* simulate, lines 175-176: the round's flag after one update_routing_table
RoundChanges(flag, modified) == flag \/ modified

\* simulate, lines 152-153: the call and the initialisation of its locals
SimulateCall(m) ==
    /\ pc \in {"idle", "done"}
    /\ pc' = "loop"
    /\ max_iterations' = m
    /\ iteration' = 0
    /\ converged' = FALSE
    /\ changes' = FALSE
    /\ ri' = 1
    /\ ni' = 1
    /\ nruns' = nruns + 1
    /\ topo' = IF topo = "building" THEN "frozen" ELSE topo
    /\ pre' = routers
    /\ UNCHANGED <<routers, graph, nops, fixpoint>>

\* simulate, lines 161-163: the while condition holds, a round begins
RoundStart ==
    /\ pc = "loop"
    /\ WhileCond
    /\ iteration' = iteration + 1
    /\ changes' = FALSE
    /\ ri' = 1
    /\ ni' = 1
    /\ pc' = "round"
    /\ UNCHANGED <<routers, graph, max_iterations, converged, nops, nruns, topo,
                   fixpoint, pre>>

\* variant of RelaxStep that reads the neighbour's table from a snapshot
\* taken when simulate was called, not at the moment of the relaxation
RelaxStep_Frozen ==
    /\ pc = "round"
    /\ ri <= Len(routers)
    /\ ni <= Len(routers[ri][2].neighbors)
    /\ LET router == routers[ri][2]
           neighbor == router.neighbors[ni][1]
       IN  IF ~Has(routers, neighbor)
           THEN /\ pc' = "raised"
                /\ UNCHANGED <<routers, changes, ni>>
           ELSE LET neighbor_table == Get(pre, neighbor).routing_table
                    res == update_routing_table(router, neighbor, neighbor_table)
                IN  /\ routers' = [routers EXCEPT ![ri] = <<@[1], res.router>>]
                    /\ changes' = RoundChanges(changes, res.modified)
                    /\ pc' = IF res.raised THEN "raised" ELSE "round"
                    /\ ni' = ni + 1
    /\ UNCHANGED <<graph, max_iterations, iteration, converged, ri, nops, nruns,
                   topo, fixpoint, pre>>

\* simulate, lines 171-176: one neighbour of the current router
RelaxStep ==
    /\ pc = "round"
    /\ ri <= Len(routers)
    /\ ni <= Len(routers[ri][2].neighbors)
    /\ LET router == routers[ri][2]
           neighbor == router.neighbors[ni][1]
       IN  IF ~Has(routers, neighbor)
           THEN \* self.routers[neighbor] raises KeyError
                /\ pc' = "raised"
                /\ UNCHANGED <<routers, changes, ni>>
           ELSE LET neighbor_table == Get(routers, neighbor).routing_table
                    res == update_routing_table(router, neighbor, neighbor_table)
                IN  /\ routers' = [routers EXCEPT ![ri] = <<@[1], res.router>>]
                    /\ changes' = RoundChanges(changes, res.modified)
                    /\ pc' = IF res.raised THEN "raised" ELSE "round"
                    /\ ni' = ni + 1
    /\ UNCHANGED <<graph, max_iterations, iteration, converged, ri, nops, nruns,
                   topo, fixpoint, pre>>

\* simulate, line 169: the neighbours of the current router are exhausted
NextRouter ==
    /\ pc = "round"
    /\ ri <= Len(routers)
    /\ ni > Len(routers[ri][2].neighbors)
    /\ ri' = ri + 1
    /\ ni' = 1
    /\ UNCHANGED <<routers, graph, pc, max_iterations, iteration, converged,
                   changes, nops, nruns, topo, fixpoint, pre>>

\* simulate, lines 182-186: the round ends
RoundEnd ==
    /\ pc = "round"
    /\ ri > Len(routers)
    /\ converged' = IF ~changes THEN TRUE ELSE converged
    /\ fixpoint' = ~changes
    /\ pc' = "loop"
    /\ UNCHANGED <<routers, graph, max_iterations, iteration, changes, ri, ni,
                   nops, nruns, topo, pre>>

\* simulate, lines 161 and 188-189: the while condition fails, simulate returns
SimulateReturn ==
    /\ pc = "loop"
    /\ ~WhileCond
    /\ pc' = "done"
    /\ UNCHANGED <<routers, graph, simvars, nops, nruns, topo, fixpoint, pre>>

\* the terminal status of a finished simulate call
Status == IF converged THEN "CONVERGED" ELSE "EXHAUSTED"

SimStep == RoundStart \/ RelaxStep \/ NextRouter \/ RoundEnd \/ SimulateReturn

Next ==
    \/ \E name \in Ids : nops < MaxOps /\ add_router(name)
    \/ \E u \in Ids, v \in Ids, c \in Costs : nops < MaxOps /\ add_link(u, v, c)
    \/ \E m \in 0 .. MaxIter : nruns < MaxRuns /\ SimulateCall(m)
    \/ RoundStart
    \/ RelaxStep
    \/ NextRouter
    \/ RoundEnd
    \/ SimulateReturn

Spec == Init /\ [][Next]_vars

----------------------------------------------------------------------------
(* Static topologies: the driver adds the routers, then the links between  *)
(* them, then only simulates.  Router names are opaque to the code (dicts  *)
(* are ordered by insertion, never by name), so the routers are added in   *)
(* the order of Names without loss of generality; add_link(u, v, c) and    *)
(* add_link(v, u, c) have the same effect when both are routers, so each   *)
(* pair is linked in one direction only.  Self-links are left to Spec.     *)

NoLinkYet == \A i \in DOMAIN routers : routers[i][2].neighbors = <<>>

StaticNext ==
    \/ \E name \in Ids :
          /\ topo = "building" /\ NoLinkYet
          /\ Len(routers) < Len(Names) /\ name = Names[Len(routers) + 1]
          /\ add_router(name)
    \/ \E i \in DOMAIN Names, j \in DOMAIN Names, c \in Costs :
          /\ topo = "building"
          /\ i < j /\ j <= Len(routers)
          /\ nops - Len(routers) < MaxLinks
          /\ add_link(Names[i], Names[j], c)
    \/ \E m \in 0 .. MaxIter : nruns < MaxRuns /\ SimulateCall(m)
    \/ RoundStart
    \/ RelaxStep
    \/ NextRouter
    \/ RoundEnd
    \/ SimulateReturn

StaticSpec == Init /\ [][StaticNext]_vars

----------------------------------------------------------------------------
(* Line topologies: four routers A, B, C, D added in this order and the    *)
(* links A-B, B-C, C-D added in any order with any costs.  The routers are *)
(* processed in the order A, B, C, D, so what D announces needs more than  *)
(* one round to reach A.                                                   *)

ChainRouters == <<"A", "B", "C", "D">>

Linked(u, v) == Has(routers, u) /\ Has(Get(routers, u).neighbors, v)

ChainNext ==
    \/ /\ nops < Len(ChainRouters)
       /\ add_router(ChainRouters[nops + 1])
    \/ \E i \in 1 .. Len(ChainRouters) - 1, c \in Costs :
          /\ topo = "building"
          /\ nops >= Len(ChainRouters)
          /\ ~Linked(ChainRouters[i], ChainRouters[i + 1])
          /\ add_link(ChainRouters[i], ChainRouters[i + 1], c)
    \/ \E m \in 0 .. MaxIter :
          /\ nops >= Len(ChainRouters)
          /\ nruns < MaxRuns
          /\ SimulateCall(m)
    \/ RoundStart
    \/ RelaxStep
    \/ NextRouter
    \/ RoundEnd
    \/ SimulateReturn

ChainSpec == Init /\ [][ChainNext]_vars

\* simulate is sequential code: once called it keeps executing until it
\* returns or raises
ChainFairSpec == ChainSpec /\ WF_vars(SimStep)

----------------------------------------------------------------------------
(* Ring topologies: the routers A, B, C, D added in this order and the     *)
(* links A-B, B-C, C-D, D-A added in any order with any costs, each at     *)
(* most once; simulate is called once, at any time, with a cap of at most  *)
(* the number of routers of a full ring.  Two routers opposite each other  *)
(* have two routes, and the order of the add_link calls is the order in    *)
(* which a router processes its neighbors.                                 *)

RingLink(i) == <<ChainRouters[i], ChainRouters[(i % Len(ChainRouters)) + 1]>>

RingNext ==
    \/ /\ topo = "building"
       /\ nops < Len(ChainRouters)
       /\ add_router(ChainRouters[nops + 1])
    \/ \E i \in DOMAIN ChainRouters, c \in Costs :
          /\ topo = "building"
          /\ nops >= Len(ChainRouters)
          /\ ~Linked(RingLink(i)[1], RingLink(i)[2])
          /\ add_link(RingLink(i)[1], RingLink(i)[2], c)
    \/ \E m \in 0 .. Len(ChainRouters) :
          /\ nruns = 0
          /\ SimulateCall(m)
    \/ RoundStart
    \/ RelaxStep
    \/ NextRouter
    \/ RoundEnd
    \/ SimulateReturn

RingSpec == Init /\ [][RingNext]_vars

----------------------------------------------------------------------------
(* Changing topologies: a static topology built as in StaticSpec and      *)
(* simulated; after a simulation that returned CONVERGED one more add_link *)
(* call, on a pair of routers or on a router itself, and a simulation of   *)
(* the changed topology.                                                   *)

DynNext ==
    \/ \E name \in Ids :
          /\ topo = "building" /\ NoLinkYet
          /\ Len(routers) < Len(Names) /\ name = Names[Len(routers) + 1]
          /\ add_router(name)
    \/ \E i \in DOMAIN Names, j \in DOMAIN Names, c \in Costs :
          /\ topo = "building"
          /\ i < j /\ j <= Len(routers)
          /\ nops - Len(routers) < MaxLinks
          /\ add_link(Names[i], Names[j], c)
    \/ \E m \in 0 .. MaxIter : pc = "idle" /\ SimulateCall(m)
    \/ RoundStart
    \/ RelaxStep
    \/ NextRouter
    \/ RoundEnd
    \/ SimulateReturn
    \/ \E i \in DOMAIN Names, j \in DOMAIN Names, c \in Costs :
          /\ topo = "frozen" /\ pc = "done" /\ converged
          /\ i <= j /\ j <= Len(routers)
          /\ add_link(Names[i], Names[j], c)

DynSpec == Init /\ [][DynNext]_vars

----------------------------------------------------------------------------
(* Direct calls: a static topology as in StaticSpec, whose user also calls *)
(* update_routing_table of a router itself, with the id and the table of  *)
(* any router as neighbor_name and neighbor_table.  Nothing catches the    *)
(* KeyError of line 64, so the program stops there.                        *)

\* routers[r].update_routing_table(n, routers[n].get_routing_table())
update_call(r, n) ==
    /\ pc \in {"idle", "done"}
    /\ Has(routers, r) /\ Has(routers, n)
    /\ LET res == update_routing_table(Get(routers, r), n, Get(routers, n).routing_table)
       IN  /\ routers' = Put(routers, r, res.router)
           /\ pc' = IF res.raised THEN "raised" ELSE pc
    /\ nops' = nops + 1
    /\ topo' = Mutated
    /\ fixpoint' = FALSE
    /\ UNCHANGED <<graph, simvars, nruns, pre>>

DirectNext ==
    \/ StaticNext
    \/ \E r \in Ids, n \in Ids :
          /\ nops - Len(routers) < MaxLinks
          /\ update_call(r, n)

DirectSpec == Init /\ [][DirectNext]_vars

----------------------------------------------------------------------------
(* main: the example network, then simulate with the default cap *)

MainRouters == <<"A", "B", "C", "D", "E", "F">>

MainLinks ==
    << <<"A", "B", 1>>, <<"A", "F", 3>>, <<"B", "C", 3>>, <<"B", "F", 1>>,
       <<"B", "E", 5>>, <<"C", "D", 2>>, <<"D", "E", 1>>, <<"E", "F", 2>>,
       <<"D", "F", 6>> >>

MainNext ==
    \/ /\ nops < Len(MainRouters)
       /\ add_router(MainRouters[nops + 1])
    \/ /\ nops >= Len(MainRouters)
       /\ nops < Len(MainRouters) + Len(MainLinks)
       /\ LET l == MainLinks[nops - Len(MainRouters) + 1]
          IN  add_link(l[1], l[2], l[3])
    \/ /\ nops = Len(MainRouters) + Len(MainLinks)
       /\ nruns = 0
       /\ SimulateCall(DefaultMaxIterations)
    \/ RoundStart
    \/ RelaxStep
    \/ NextRouter
    \/ RoundEnd
    \/ SimulateReturn

MainSpec == Init /\ [][MainNext]_vars

----------------------------------------------------------------------------
(* Reference: shortest-path costs over the directed graph of the routers'  *)
(* neighbors maps, by enumeration of the simple paths (costs are >= 0).    *)

RouterNames == Keys(routers)

Router(name) == Get(routers, name)

Table(name) == Router(name).routing_table

\* the routers that name has a link to
Succ(name) == Keys(Router(name).neighbors) \cap RouterNames

LinkCost(u, v) == Get(Router(u).neighbors, v)

RECURSIVE PathCosts(_, _, _)
PathCosts(u, v, visited) ==
    IF u = v
    THEN {0}
    ELSE UNION { {LinkCost(u, n) + x : x \in PathCosts(n, v, visited \cup {u})} :
                 n \in Succ(u) \ (visited \cup {u}) }

Reachable(u, v) == PathCosts(u, v, {}) # {}

ShortestCost(u, v) ==
    CHOOSE x \in PathCosts(u, v, {}) : \A y \in PathCosts(u, v, {}) : x <= y

----------------------------------------------------------------------------
(* Properties *)

\* simulate has returned after a round that produced no change, and the
\* topology has not been touched since the first simulation began
ConvergedStatic == pc = "done" /\ converged /\ topo = "frozen"

\* the entry of router r for destination d is the shortest-path cost with a
\* next hop on a shortest path (the router itself for its own entry)
ShortestEntry(r, d) ==
    /\ Has(Table(r), d)
    /\ LET e == Get(Table(r), d)
       IN  /\ e[1] = ShortestCost(r, d)
           /\ \/ d = r /\ e[2] = r
              \/ /\ e[2] \in Succ(r)
                 /\ Reachable(e[2], d)
                 /\ LinkCost(r, e[2]) + ShortestCost(e[2], d) = e[1]

----------------------------------------------------------------------------
(* The example network of main *)

\* destination -> cost and destination -> next hop of a routing table
CostsOf(table) == {<<table[i][1], table[i][2][1]>> : i \in DOMAIN table}

HopsOf(table) == {<<table[i][1], table[i][2][2]>> : i \in DOMAIN table}

\* C2: on the example network simulate with the cap of 100 ends CONVERGED
\* within the cap, and router A's table has the costs A=0, B=1, F=2, E=4,
\* C=4, D=5.
C2_ExampleConverges ==
    pc = "done" =>
        /\ Status = "CONVERGED"
        /\ iteration <= DefaultMaxIterations
        /\ ~changes
        /\ CostsOf(Table("A")) =
              {<<"A", 0>>, <<"B", 1>>, <<"F", 2>>, <<"E", 4>>, <<"C", 4>>, <<"D", 5>>}

C2_Witness ==
    /\ pc = "done" /\ nruns = 1 /\ iteration > 1
    /\ Len(routers) = Len(MainRouters)
    /\ Cardinality(graph.edges) = Len(MainLinks)

\* C3 as stated: in A's converged table the next hop for F is B, for E is F,
\* for C is B and for D is E.
C3_AsStated ==
    pc = "done" =>
        {<<"F", "B">>, <<"E", "F">>, <<"C", "B">>, <<"D", "E">>} \subseteq HopsOf(Table("A"))

\* C3 amended: in A's converged table the next hop for F, E, C and D is B in
\* each case (B is the first router of every shortest path from A; F and E
\* are the routers before E and D on those paths, not A's next hops).
C3_ExampleNextHops ==
    pc = "done" =>
        HopsOf(Table("A")) =
            {<<"A", "A">>, <<"B", "B">>, <<"F", "B">>, <<"E", "B">>, <<"C", "B">>, <<"D", "B">>}

C3_Witness ==
    /\ pc = "done" /\ converged
    /\ Has(Table("A"), "E") /\ Get(Table("A"), "E")[1] = 4
    /\ Has(Table("A"), "D") /\ Get(Table("A"), "D")[1] = 5

----------------------------------------------------------------------------
(* Invariants of the network *)

\* a router that add_neighbor or update_routing_table has written to
IsMutated(r) == r.neighbors # <<>> \/ r.routing_table # <<>>

\* C4: every router that has been mutated holds the entry (0, self) for its
\* own name, in every state reached by add_router, add_link (self-links and
\* zero costs included) and relaxation steps.
C4_SelfRoute ==
    \A i \in DOMAIN routers :
        LET r == routers[i][2]
        IN  IsMutated(r) =>
                /\ Has(r.routing_table, r.name)
                /\ Get(r.routing_table, r.name) = <<0, r.name>>

\* a round has relaxed a router that has a self-link and a zero-cost link to
\* another router
C4_Witness ==
    /\ pc = "done" /\ iteration >= 1
    /\ \E i \in DOMAIN routers :
          LET r == routers[i][2]
          IN  /\ Has(r.neighbors, r.name)
              /\ \E n \in Keys(r.neighbors) \cap RouterNames :
                    /\ n # r.name
                    /\ Get(r.neighbors, n) = 0
                    /\ Has(Table(n), r.name)

\* C5 as stated: for every link added (every edge of the graph), both ends
\* are routers whose neighbors maps hold the other end with the same cost.
C5_Symmetry ==
    \A e \in graph.edges : \A u \in e.ends, v \in e.ends :
        (u # v \/ Cardinality(e.ends) = 1) =>
            /\ Has(routers, u) /\ Has(routers, v)
            /\ Has(Router(u).neighbors, v) /\ Has(Router(v).neighbors, u)
            /\ LinkCost(u, v) = LinkCost(v, u)

\* add_link(u, v, cost) has set both neighbors entries
BothSet(rs, u, v, cost) ==
    /\ Has(rs, u) /\ Has(rs, v)
    /\ Has(Get(rs, u).neighbors, v) /\ Get(Get(rs, u).neighbors, v) = cost
    /\ Has(Get(rs, v).neighbors, u) /\ Get(Get(rs, v).neighbors, u) = cost

BothOrNeitherStep ==
    \A u \in Ids, v \in Ids, c \in Costs :
        add_link(u, v, c) => (BothSet(routers', u, v, c) \/ routers' = routers)

\* C6 as stated: every add_link call, a failing one included, either sets
\* both neighbors entries or changes no router (neighbors map or table).
C6_BothOrNeither == [][BothOrNeitherStep]_vars

----------------------------------------------------------------------------
(* Properties of a simulation run *)

\* every destination of old is in new, at a cost that is not higher
NoWorse(old, new) ==
    \A d \in Keys(old) : Has(new, d) /\ Get(new, d)[1] <= Get(old, d)[1]

MonotonicStep ==
    pc \in {"loop", "round"} =>
        /\ Len(routers') = Len(routers)
        /\ \A i \in DOMAIN routers :
              NoWorse(routers[i][2].routing_table, routers'[i][2].routing_table)

\* C7: a step of a simulation run removes no entry of any routing table and
\* raises no recorded cost.
C7_Monotonic == [][MonotonicStep]_vars

\* a round has lowered the cost some router recorded when simulate was called
C7_Witness ==
    /\ pc = "round" /\ Len(pre) = Len(routers)
    /\ \E i \in DOMAIN routers :
          LET old == pre[i][2].routing_table
              new == routers[i][2].routing_table
          IN  \E d \in Keys(old) : Has(new, d) /\ Get(new, d)[1] < Get(old, d)[1]

FixpointStep ==
    (fixpoint /\ pc = "round") => (routers' = routers /\ ~changes /\ ~changes')

\* C8: once a round has ended without changes (and the topology is left
\* alone), no step of a further round changes any routing table or sets the
\* round's change flag.
C8_IdempotentAtFixpoint == [][FixpointStep]_vars

\* a second simulate call has run a whole round over tables that hold a
\* learned route
C8_Witness ==
    /\ fixpoint /\ nruns = 2 /\ pc = "round" /\ ri > Len(routers)
    /\ \E r \in RouterNames : \E i \in DOMAIN Table(r) :
          Table(r)[i][2][2] \notin {r, Table(r)[i][1]}

\* the status simulate returns, by what its rounds did; together with
\* RoundAfterChangesOnly, "the last round changed something" means that every
\* round did
TerminalStatus ==
    pc = "done" =>
        /\ (Status = "CONVERGED") <=> (iteration >= 1 /\ ~changes)
        /\ (Status = "EXHAUSTED") <=>
              (iteration = max_iterations /\ (iteration = 0 \/ changes))

RoundAfterChangesOnly ==
    (pc = "loop" /\ pc' = "round" /\ iteration >= 1) => changes

\* a simulate call that is running returns
SimulateReturns == (pc \in {"loop", "round"}) ~> (pc = "done")

\* C9: simulate runs at most max_iterations rounds and always returns; it
\* returns CONVERGED iff its last round produced no change and EXHAUSTED iff
\* max_iterations rounds ran and each produced a change; no round starts
\* after a round without changes.
C9_Termination ==
    /\ [](iteration <= max_iterations)
    /\ []TerminalStatus
    /\ [][RoundAfterChangesOnly]_vars
    /\ SimulateReturns

\* simulate converged in exactly the last round the cap allowed, after a
\* round with changes
C9_Witness ==
    /\ pc = "done" /\ converged
    /\ iteration = max_iterations /\ iteration >= 3
    /\ routers # pre

ZeroRun ==
    (max_iterations = 0 /\ pc \in {"loop", "round", "done"}) =>
        /\ pc # "round"
        /\ iteration = 0
        /\ Status = "EXHAUSTED"
        /\ routers = pre

ZeroRunStep ==
    (max_iterations = 0 /\ pc = "loop") => (pc' = "done" /\ routers' = routers)

\* C10: simulate with max_iterations = 0 runs no round, returns EXHAUSTED
\* without raising and leaves every routing table and neighbors map as they
\* were.
C10_ZeroIterations == []ZeroRun /\ [][ZeroRunStep]_vars

\* simulate(0) has returned on a network with links
C10_Witness ==
    /\ pc = "done" /\ max_iterations = 0 /\ nruns >= 1
    /\ graph.edges # {}
    /\ \E r \in RouterNames : Len(Table(r)) >= 2

----------------------------------------------------------------------------
(* simulate as a function of the routers it starts from: the rounds in the *)
(* order of the routers dict and of every neighbors dict, each neighbour's *)
(* table read at the moment it is used.                                    *)

\* add_link, lines 111-112, on routers that both exist
link(rs, router1, router2, cost) ==
    LET r1 == Put(rs, router1, add_neighbor(Get(rs, router1), router2, cost))
    IN  Put(r1, router2, add_neighbor(Get(r1, router2), router1, cost))

\* simulate, lines 169-176: the rest of a round from router i, neighbour j
RECURSIVE round(_, _, _, _)
round(rs, i, j, flag) ==
    IF i > Len(rs)
    THEN [routers |-> rs, changes |-> flag]
    ELSE IF j > Len(rs[i][2].neighbors)
    THEN round(rs, i + 1, 1, flag)
    ELSE LET router == rs[i][2]
             neighbor == router.neighbors[j][1]
             res == update_routing_table(router, neighbor,
                                         Get(rs, neighbor).routing_table)
         IN  round([rs EXCEPT ![i] = <<@[1], res.router>>], i, j + 1,
                   RoundChanges(flag, res.modified))

\* simulate, lines 161-186: at most m rounds, stopping after a quiet one
RECURSIVE simulate(_, _)
simulate(rs, m) ==
    IF m = 0
    THEN [routers |-> rs, converged |-> FALSE]
    ELSE LET r == round(rs, 1, 1, FALSE)
         IN  IF r.changes
             THEN simulate(r.routers, m - 1)
             ELSE [routers |-> r.routers, converged |-> TRUE]

\* the ring of the current state built in another order: the routers added
\* D, C, B, A and the links that exist added D-A, C-D, B-C, A-B
RECURSIVE OtherOrderRouters(_)
OtherOrderRouters(i) ==
    IF i = 0
    THEN << >>
    ELSE <<<<ChainRouters[i], NewRouter(ChainRouters[i])>>>> \o OtherOrderRouters(i - 1)

RECURSIVE OtherOrderLinks(_, _)
OtherOrderLinks(rs, i) ==
    IF i = 0
    THEN rs
    ELSE LET u == RingLink(i)[1]
             v == RingLink(i)[2]
         IN  OtherOrderLinks(IF Linked(u, v) THEN link(rs, u, v, LinkCost(u, v)) ELSE rs,
                             i - 1)

OtherOrder == OtherOrderLinks(OtherOrderRouters(Len(ChainRouters)), Len(ChainRouters))

\* the fixed point of the other order (a ring of n routers is quiet within n rounds)
OtherOrderFixpoint == simulate(OtherOrder, Len(ChainRouters) + 1).routers

\* a simulation of the four routers of the ring has CONVERGED
RingConverged == ConvergedStatic /\ Len(routers) = Len(ChainRouters)

\* C11 as stated: run to convergence in two processing orders, every router
\* holds the same cost and the same next hop for every destination.
C11_AsStated ==
    RingConverged =>
        \A r \in RouterNames :
            /\ CostsOf(Table(r)) = CostsOf(Get(OtherOrderFixpoint, r).routing_table)
            /\ HopsOf(Table(r)) = HopsOf(Get(OtherOrderFixpoint, r).routing_table)

\* C11: run to convergence in two processing orders (of the routers and of
\* each router's neighbors), every router holds the same destinations with the
\* same costs; the next hops may differ where two neighbors offer equally
\* cheap routes.
C11_SameCosts ==
    RingConverged =>
        \A r \in RouterNames :
            CostsOf(Table(r)) = CostsOf(Get(OtherOrderFixpoint, r).routing_table)

\* a converged full ring whose routers process their neighbors in an order
\* that differs from the other order's, with a route of two hops
C11_Witness ==
    /\ RingConverged
    /\ \A i \in DOMAIN ChainRouters : Linked(RingLink(i)[1], RingLink(i)[2])
    /\ \E r \in RouterNames :
          /\ Keys(Router(r).neighbors) = Keys(Get(OtherOrder, r).neighbors)
          /\ Router(r).neighbors # Get(OtherOrder, r).neighbors
          /\ \E d \in Keys(Table(r)) : Get(Table(r), d)[2] # d /\ d # r

\* C12: in every state reached by add_link calls (repeated links with other
\* costs included) and relaxation steps, every router r holds for every n in
\* r.neighbors a routing-table entry whose cost is at most r.neighbors[n].
C12_NeighborEntry ==
    \A r \in RouterNames :
        \A n \in Keys(Router(r).neighbors) :
            /\ Has(Table(r), n)
            /\ Get(Table(r), n)[1] <= LinkCost(r, n)

\* after a link was added again and the simulation was rerun, a router holds
\* a route to a neighbor that is strictly cheaper than the link to it
C12_Witness ==
    /\ pc = "done" /\ topo = "changed"
    /\ \E r \in RouterNames :
          \E n \in Keys(Router(r).neighbors) :
              /\ Get(Table(r), n)[1] < LinkCost(r, n)
              /\ Get(Table(r), n)[2] # n

\* a direct call of update_routing_table with a neighbor_name that is not in
\* the router's neighbors fails and leaves every router as it was; no step
\* of a round fails
UnknownNeighborStep ==
    /\ pc = "round" => pc' # "raised"
    /\ \A r \in Ids, n \in Ids :
          (update_call(r, n) /\ ~Has(Router(r).neighbors, n)) =>
              (pc' = "raised" /\ routers' = routers)

\* C13: relaxation called with a neighbor id that is not in the router's
\* neighbors fails with the lookup error and leaves the router's table and
\* neighbors unchanged; the round driver never reaches this failure.
C13_UnknownNeighbor == [][UnknownNeighborStep]_vars

\* after a simulation that relaxed, a direct call has failed on routers that
\* hold routes
C13_Witness ==
    /\ pc = "raised" /\ nruns >= 1 /\ iteration >= 1
    /\ \E r \in RouterNames : Router(r).neighbors # << >>
    /\ \E r \in RouterNames, n \in RouterNames :
          ~Has(Router(r).neighbors, n) /\ Table(n) # << >>

\* a relaxation of a round writes (candidate, neighbor) for the destinations
\* of the neighbor's table that are missing or strictly improved, keeps every
\* other entry, and raises the round's flag exactly when it wrote an entry
StrictImprovementStep ==
    (pc = "round" /\ ni' = ni + 1) =>
        LET r == routers[ri][1]
            n == routers[ri][2].neighbors[ni][1]
            old == routers[ri][2].routing_table
            new == routers'[ri][2].routing_table
            offered == Table(n)
            candidate(d) == LinkCost(r, n) + Get(offered, d)[1]
        IN  /\ Keys(new) = Keys(old) \cup Keys(offered)
            /\ \A d \in Keys(new) :
                  IF Has(offered, d) /\ (~Has(old, d) \/ candidate(d) < Get(old, d)[1])
                  THEN Get(new, d) = <<candidate(d), n>>
                  ELSE Get(new, d) = Get(old, d)
            /\ changes' = (changes \/ new # old)

\* C14: relaxation replaces an entry only when the destination is missing or
\* the candidate cost is strictly lower; on a tie the entry keeps its cost and
\* next hop; the call reports a change exactly when it wrote an entry.
C14_StrictImprovement == [][StrictImprovementStep]_vars

\* a relaxation has just met a tie: the neighbor offers a destination at
\* exactly the cost the router holds through another next hop, and the round
\* has seen no change
C14_Witness ==
    /\ pc = "round" /\ ni > 1 /\ ri <= Len(routers) /\ ~changes
    /\ LET r == routers[ri][1]
           n == routers[ri][2].neighbors[ni - 1][1]
       IN  \E d \in Keys(Table(n)) :
              /\ d # r
              /\ Get(Table(r), d)[1] = LinkCost(r, n) + Get(Table(n), d)[1]
              /\ Get(Table(r), d)[2] # n

\* a step of add_link on two routers that exist
LinkStep(u, v, c) ==
    /\ pc \in {"idle", "done"} /\ nops' = nops + 1
    /\ Has(routers, u) /\ Has(routers, v)
    /\ add_link(u, v, c)

\* the two add_neighbor calls of add_link(u, v, c): on u with v, on v with u
Calls(u, v) == {<<u, v>>, <<v, u>>}

AddNeighborAsStatedStep ==
    (pc \in {"idle", "done"} /\ nops' = nops + 1) =>
        \A u \in Ids, v \in Ids, c \in Costs :
            LinkStep(u, v, c) =>
                \A call \in Calls(u, v) :
                    LET r == Get(routers', call[1])
                        n == call[2]
                    IN  /\ Get(r.neighbors, n) = c
                        /\ Get(r.routing_table, n) = <<c, n>>
                        /\ Get(r.routing_table, r.name) = <<0, r.name>>

\* C15 as stated: add_neighbor(n, cost) on r always leaves r.neighbors[n] =
\* cost, r.routing_table[n] = (cost, n) and r.routing_table[r] = (0, r).
C15_AsStated == [][AddNeighborAsStatedStep]_vars

AddNeighborStep ==
    (pc \in {"idle", "done"} /\ nops' = nops + 1) =>
        \A u \in Ids, v \in Ids, c \in Costs :
            LinkStep(u, v, c) =>
                \A call \in Calls(u, v) :
                    LET r == Get(routers', call[1])
                        n == call[2]
                    IN  /\ Get(r.neighbors, n) = c
                        /\ n # r.name => Get(r.routing_table, n) = <<c, n>>
                        /\ Get(r.routing_table, r.name) = <<0, r.name>>

\* C15: add_neighbor(n, cost) on r with n other than r always leaves
\* r.neighbors[n] = cost, r.routing_table[n] = (cost, n) and
\* r.routing_table[r] = (0, r), also when r had learned a strictly cheaper
\* route to n; with n = r it leaves r.neighbors[r] = cost and
\* r.routing_table[r] = (0, r).
C15_AddNeighbor == [][AddNeighborStep]_vars

\* after a converged simulation the link r-n was added again at a cost above
\* the route r had learned through a third router m, whose table still shows
\* that route; r's entry for n is the link again
C15_Witness ==
    /\ pc = "idle" /\ topo = "changed" /\ converged
    /\ \E r \in RouterNames, n \in RouterNames, m \in RouterNames :
          /\ r # n /\ m # r /\ m # n
          /\ Linked(r, n)
          /\ Has(Get(pre, r).neighbors, n)
          /\ Get(Get(pre, r).neighbors, n) # LinkCost(r, n)
          /\ Get(Table(r), n) = <<LinkCost(r, n), n>>
          /\ Has(Table(m), r) /\ Has(Table(m), n)
          /\ Get(Table(m), r)[1] + Get(Table(m), n)[1] < LinkCost(r, n)

\* a step of add_router or add_link
TopologyStep == pc \in {"idle", "done"} /\ nops' = nops + 1

\* router r holds after the step the table it held before
SameTable(r) == Has(routers', r) /\ Get(routers', r).routing_table = Table(r)

TablesUntouchedStep == TopologyStep => \A r \in RouterNames : SameTable(r)

SameEntriesBut(r, ds) ==
    /\ Has(routers', r)
    /\ Keys(Get(routers', r).routing_table) \ ds = Keys(Table(r)) \ ds
    /\ \A d \in Keys(Table(r)) \ ds :
          Get(Get(routers', r).routing_table, d) = Get(Table(r), d)

TableWritersStep ==
    /\ routers' # routers => (TopologyStep \/ pc = "round")
    /\ TopologyStep =>
          /\ \A name \in Ids :
                add_router(name) => \A r \in RouterNames \ {name} : SameTable(r)
          /\ \A u \in Ids, v \in Ids, c \in Costs :
                add_link(u, v, c) =>
                    /\ \A r \in RouterNames \ {u, v} : SameTable(r)
                    /\ \A r \in RouterNames \cap {u, v} : SameEntriesBut(r, {u, v})

RelaxFrameStep ==
    pc \in {"loop", "round"} =>
        /\ graph' = graph
        /\ Len(routers') = Len(routers)
        /\ \A i \in DOMAIN routers :
              /\ routers'[i][1] = routers[i][1]
              /\ routers'[i][2].name = routers[i][2].name
              /\ routers'[i][2].neighbors = routers[i][2].neighbors
              /\ routers'[i][2].routing_table # routers[i][2].routing_table =>
                    (pc = "round" /\ i = ri /\ ni' = ni + 1)

\* C17: a relaxation step of r from n changes nothing except r's own routing
\* table: the neighbors maps, the other routers' tables and the topology
\* graph are unchanged by the step, by a whole round and by simulate.
C17_RelaxFrame == [][RelaxFrameStep]_vars

\* a relaxation has just written an entry into the table of the router at
\* position ri, which has more destinations than neighbors
C17_Witness ==
    /\ pc = "round" /\ ni > 1 /\ changes /\ ri <= Len(routers)
    /\ Len(routers[ri][2].routing_table) > Len(routers[ri][2].neighbors) + 1

\* the first round of the first simulation of the full line A-B-C-D is over
FirstRoundOver ==
    /\ \A i \in 1 .. Len(ChainRouters) - 1 : Linked(ChainRouters[i], ChainRouters[i + 1])
    /\ nruns = 1 /\ iteration = 1 /\ pc = "loop"

\* the cost of the line from its first to its last router
RECURSIVE LineCost(_)
LineCost(i) ==
    IF i = 0 THEN 0 ELSE LinkCost(ChainRouters[i], ChainRouters[i + 1]) + LineCost(i - 1)

\* C18: a relaxation reads the neighbor's table as it stands at that moment,
\* so a router processed after its neighbor holds after a single round a
\* route of three hops: on the line A-B-C-D processed in the order A, B, C, D
\* (the chain D-C-B-A of the example with the names mirrored) D has learned A
\* through C at the cost of the three links, while A, processed first, has
\* not learned D.
C18_LiveReread ==
    FirstRoundOver =>
        /\ Has(Table("D"), "A")
        /\ Get(Table("D"), "A") = <<LineCost(Len(ChainRouters) - 1), "C">>
        /\ ~Has(Table("A"), "D")

\* the first round is over on a line with links of different costs, and C,
\* from which D learned A, had no route to A when the simulation started
C18_Witness ==
    /\ FirstRoundOver
    /\ LinkCost("A", "B") # LinkCost("B", "C")
    /\ ~Has(Get(pre, "C").routing_table, "A")
    /\ Has(Table("D"), "A")

\* C19: every entry (cost, next_hop) of r's routing table has as next_hop
\* either r itself, and then it is r's entry for itself, or an id in
\* r.neighbors; a route never points at a router that is not adjacent.
C19_NextHopLocal ==
    \A r \in RouterNames :
        \A d \in Keys(Table(r)) :
            LET next_hop == Get(Table(r), d)[2]
            IN  IF next_hop = r
                THEN d = r
                ELSE Has(Router(r).neighbors, next_hop)

\* a router holds a route to a destination that is not its neighbor, and a
\* router with a link to itself has been relaxed from itself
C19_Witness ==
    /\ pc = "done" /\ iteration >= 1
    /\ \E r \in RouterNames :
          \E d \in Keys(Table(r)) : d # r /\ ~Has(Router(r).neighbors, d)
    /\ \E r \in RouterNames : Has(Router(r).neighbors, r)

\* C20 as stated: on a static topology of n routers, from the tables built by
\* add_link, a round without change comes after at most n rounds, so simulate
\* with max_iterations >= n ends CONVERGED.
C20_AsStated ==
    (pc = "done" /\ max_iterations >= Len(routers)) =>
        (converged /\ iteration <= Len(routers))

\* C20: on a static topology of n >= 1 routers with non-negative costs, from
\* the tables built by add_link, a round without change comes after at most
\* n rounds, so simulate with max_iterations >= n ends CONVERGED and never
\* EXHAUSTED.
C20_ConvergesWithinN ==
    (pc = "done" /\ Len(routers) >= 1 /\ max_iterations >= Len(routers)) =>
        (converged /\ iteration <= Len(routers))

\* the full ring of four routers, simulated with a cap of four, has
\* CONVERGED after two rounds with changes and a quiet third one
C20_Witness ==
    /\ pc = "done" /\ converged
    /\ \A i \in DOMAIN ChainRouters : Linked(RingLink(i)[1], RingLink(i)[2])
    /\ max_iterations = Len(routers)
    /\ iteration = Len(routers) - 1

====
